---- MODULE Spec2Model ----
(***************************************************************************)
(* Life cycle of a repository tree item (RTI) of Argos:                    *)
(*   libargos/repo/baserti.py      BaseRti (open, close, fetchChildren)    *)
(*   libargos/repo/filesytemrti.py UnknownFileRti, DirectoryRti            *)
(*   libargos/utils/cls.py         is_a_sequence                           *)
(* The methods are operators on a node record; they take the outcome of    *)
(* every hook they may invoke as a parameter and yield the node after the  *)
(* call together with what the call raised, returned and invoked.          *)
(***************************************************************************)
EXTENDS Naturals, Sequences, FiniteSets, TLC

VARIABLES
    kind,            \* class of the node
    fileName,        \* BaseRti._fileName
    pathType,        \* what the file system holds at the node's path
    listing,         \* entries of that path when it is a directory
    debugging,       \* libargos.info.DEBUGGING
    isOpen,          \* BaseRti._isOpen
    exception,       \* BaseRti._exception
    childrenFetched, \* AbstractLazyLoadTreeItem._childrenFetched
    lastOp,          \* history: the most recent call on the node
    prevOp,          \* history: the call before it
    pre,             \* history: the node as the most recent call found it
    raised,          \* history: what the most recent call raised to its caller
    ret,             \* history: what the most recent call returned
    hooks,           \* history: the hooks the most recent call invoked, in order
    captured,        \* history: the error the most recent call stored with setException
    cached,          \* history: the children of the first successful enumeration
    nFetchHook,      \* history: invocations of _fetchAllChildren so far
    nCalls,          \* history: number of calls so far
    tree,            \* the nodes of a tree of RTIs, by name
    trace,           \* history: close() calls and hooks of the most recent call on the tree
    tlast,           \* history: the most recent call on the tree and the one before
    tCalls,          \* history: number of calls on the tree so far
    asArray,         \* BaseRti._asArray: the array view of the node
    registry,        \* the items of a registry, in the order of registration
    modules,         \* the modules that can be imported, with their symbols
    call,            \* history: the most recent call of a function or constructor
    browsing         \* the call of browse(): its position, arguments and rounds

nodeVars == <<kind, fileName, pathType, listing, isOpen, exception,
              childrenFetched, lastOp, prevOp, pre, raised, ret, hooks,
              captured, cached, nFetchHook, nCalls>>

treeVars == <<tree, trace, tlast, tCalls>>

auxVars == <<asArray, registry, modules, call, browsing>>

vars == <<nodeVars, debugging, treeVars, auxVars>>

----------------------------------------------------------------------------
(* Bounds *)

MaxCalls == 3        \* calls made on the node in one behaviour
MaxEntries == 3      \* entries of a directory listing
MaxChildren == 1     \* children a format-specific enumeration hook returns
MaxTreeCalls == 4    \* calls made on the nodes of the tree in one behaviour
MaxListed == 1       \* entries of the directory of the node of Spec
MaxDirCalls == 1     \* calls made on the directory node of SpecDir

----------------------------------------------------------------------------
(* Python values *)

None == "None"

\* A Python object as far as type() and its items matter.
PyValue(t, xs) == [type |-> t, items |-> xs]

PyNone == PyValue("NoneType", <<>>)

PyList(xs) == PyValue("list", xs)

is_a_sequence(var, allow_none) ==
    \/ var.type = "list"
    \/ var.type = "tuple"
    \/ (var.type = "NoneType" /\ allow_none)

----------------------------------------------------------------------------
(* File system *)

\* File names are sequences of characters.
VisibleNames == { <<"b">>, <<"s">>, <<"t">> }

EntryTypes == {"dir", "file", "other"}

\* The entries of a directory: visible entries of every type, a hidden
\* regular file and a hidden directory.
Entries ==
    [name : VisibleNames, type : EntryTypes]
    \cup { [name |-> <<".", "h">>, type |-> "file"],
           [name |-> <<".", "g">>, type |-> "dir"] }

startswith(name, prefix) ==
    /\ Len(name) >= Len(prefix)
    /\ SubSeq(name, 1, Len(prefix)) = prefix

HiddenMarker == <<".">>

RECURSIVE SelectEntries_withHidden(_, _)
SelectEntries_withHidden(entries, type) ==
    IF entries = <<>> THEN <<>>
    ELSE LET e == Head(entries)
             rest == SelectEntries_withHidden(Tail(entries), type)
         IN IF e.type = type THEN <<e>> \o rest ELSE rest

RECURSIVE SelectEntries_anyType(_, _)
SelectEntries_anyType(entries, type) ==
    IF entries = <<>> THEN <<>>
    ELSE LET e == Head(entries)
             rest == SelectEntries_anyType(Tail(entries), type)
         IN IF (e.type = type \/ (type = "file" /\ e.type = "other"))
               /\ ~startswith(e.name, HiddenMarker)
            THEN <<e>> \o rest
            ELSE rest

RECURSIVE SelectEntries(_, _)
\* [... for fileName, absFileName in zip(...) if os.path.<test>(absFileName)
\*                                           and not fileName.startswith('.')]
SelectEntries(entries, type) ==
    IF entries = <<>> THEN <<>>
    ELSE LET e == Head(entries)
             rest == SelectEntries(Tail(entries), type)
         IN IF e.type = type /\ ~startswith(e.name, HiddenMarker)
            THEN <<e>> \o rest
            ELSE rest

RECURSIVE MakeItems(_, _)
MakeItems(entries, cls) ==
    IF entries = <<>> THEN <<>>
    ELSE <<[cls |-> cls, nodeName |-> Head(entries).name]>>
         \o MakeItems(Tail(entries), cls)

\* Listings: sequences of at most MaxEntries entries with distinct names.
Listings ==
    { l \in UNION { [1..n -> Entries] : n \in 0..MaxEntries } :
        \A i, j \in DOMAIN l : i # j => l[i].name # l[j].name }

----------------------------------------------------------------------------
(* Nodes *)

Kinds == {"BaseRti", "UnknownFileRti", "DirectoryRti", "FormatRti"}

NodeOf(k, f, o, e, c) ==
    [kind |-> k, fileName |-> f, isOpen |-> o, exception |-> e,
     childrenFetched |-> c]

\* The working directory of the process: the root directory.
getcwd == <<"/">>

isabs(path) == startswith(path, <<"/">>)

\* os.path.join(dir, name)
join(dir, name) ==
    IF isabs(name) THEN name
    ELSE IF dir = <<>> \/ dir[Len(dir)] = "/" THEN dir \o name
    ELSE dir \o <<"/">> \o name

\* path.split('/')
RECURSIVE split(_)
split(path) ==
    IF path = <<>> THEN << <<>> >>
    ELSE LET rest == split(Tail(path))
         IN IF Head(path) = "/" THEN << <<>> >> \o rest
            ELSE << <<Head(path)>> \o Head(rest) >> \o Tail(rest)

\* The loop of os.path.normpath over the components of the path.
RECURSIVE NormComps(_, _, _)
NormComps(comps, new_comps, initial_slashes) ==
    IF comps = <<>> THEN new_comps
    ELSE LET comp == Head(comps)
             rest == Tail(comps)
         IN IF comp \in { <<>>, <<".">> }
            THEN NormComps(rest, new_comps, initial_slashes)
            ELSE IF \/ comp # <<".", ".">>
                    \/ (initial_slashes = 0 /\ new_comps = <<>>)
                    \/ (new_comps # <<>>
                          /\ new_comps[Len(new_comps)] = <<".", ".">>)
            THEN NormComps(rest, Append(new_comps, comp), initial_slashes)
            ELSE IF new_comps # <<>>
            THEN NormComps(rest, SubSeq(new_comps, 1, Len(new_comps) - 1),
                           initial_slashes)
            ELSE NormComps(rest, new_comps, initial_slashes)

\* '/'.join(comps)
RECURSIVE JoinComps(_)
JoinComps(comps) ==
    IF comps = <<>> THEN <<>>
    ELSE IF Len(comps) = 1 THEN Head(comps)
    ELSE Head(comps) \o <<"/">> \o JoinComps(Tail(comps))

\* os.path.normpath
normpath(path) ==
    IF path = <<>> THEN <<".">>
    ELSE LET initial_slashes ==
                 IF ~isabs(path) THEN 0
                 ELSE IF startswith(path, <<"/", "/">>)
                         /\ ~startswith(path, <<"/", "/", "/">>)
                      THEN 2 ELSE 1
             comps == NormComps(split(path), <<>>, initial_slashes)
             res == [i \in 1..initial_slashes |-> "/"] \o JoinComps(comps)
         IN IF res = <<>> THEN <<".">> ELSE res

\* os.path.abspath
abspath(path) ==
    normpath(IF isabs(path) THEN path ELSE join(getcwd, path))

NewNode_opened(k, f) ==
    NodeOf(k, IF f # <<>> THEN abspath(f) ELSE f, TRUE, None, FALSE)

\* BaseRti.__init__ (and AbstractLazyLoadTreeItem.__init__ for childrenFetched)
NewNode(k, f) ==
    NodeOf(k, IF f # <<>> THEN abspath(f) ELSE f, FALSE, None, FALSE)

self == NodeOf(kind, fileName, isOpen, exception, childrenFetched)

setException(s, ex) == [s EXCEPT !.exception = ex]

clearException(s) == [s EXCEPT !.exception = None]

\* The outcome of a call: the node after it, the error it raised to the
\* caller (None: it returned), the value it returned, the hooks it invoked
\* and the error it stored on the node (None: it stored nothing).
Result(s, r, v, h, c) ==
    [node |-> s, raised |-> r, ret |-> v, hooks |-> h, captured |-> c]

\* A hook invocation: the hook, the error it raised (None: it returned) and
\* the value it returned.
Hook(name, out, val) == [hook |-> name, out |-> out, val |-> val]

Handle_logOnly(s, dbg, ex, v, h) ==
    IF dbg THEN Result(s, ex, PyNone, h, None)
    ELSE Result(s, None, v, h, None)

Handle_alwaysCaptures(s, dbg, ex, v, h) ==
    Result(setException(s, ex), None, v, h, ex)

Handle_alwaysRaises(s, dbg, ex, v, h) == Result(s, ex, PyNone, h, None)

\* except Exception as ex: if DEBUGGING: raise; ...; self.setException(ex)
Handle(s, dbg, ex, v, h) ==
    IF dbg THEN Result(s, ex, PyNone, h, None)
    ELSE Result(setException(s, ex), None, v, h, ex)

----------------------------------------------------------------------------
(* Hooks: the outcomes a hook of a node can have.  A hook outcome is None  *)
(* (it returned) or the error it raised.                                    *)

openResources_checksFile(s) ==
    IF s.fileName # <<>> /\ pathType = "absent" THEN {"IOError"}
    ELSE IF s.kind = "FormatRti" THEN {None, "OpenError"} ELSE {None}

\* BaseRti._openResources does nothing; a format-specific RTI overrides it.
openResources(s) ==
    IF s.kind = "FormatRti" THEN {None, "OpenError"} ELSE {None}

\* BaseRti._closeResources does nothing; a format-specific RTI overrides it.
closeResources(s) ==
    IF s.kind = "FormatRti" THEN {None, "CloseError"} ELSE {None}

FetchOutcome(ex, v) == [raises |-> ex, value |-> v]

FormatItems ==
    UNION { [1..n -> [cls : {"FormatRti"}, nodeName : {<<"c">>}]] :
            n \in 0..MaxChildren }

DirectoryFetchAllChildren_filesFirst(f, ptype, entries) ==
    IF f = <<>> \/ ptype # "dir"
    THEN FetchOutcome("OSError", PyNone)
    ELSE FetchOutcome(None,
            PyList(MakeItems(SelectEntries(entries, "file"), "UnknownFileRti")
                   \o MakeItems(SelectEntries(entries, "dir"), "DirectoryRti")))

\* DirectoryRti._fetchAllChildren
DirectoryFetchAllChildren(f, ptype, entries) ==
    IF f = <<>> \/ ptype # "dir"
    THEN FetchOutcome("OSError", PyNone)      \* os.listdir raises
    ELSE FetchOutcome(None,
            PyList(MakeItems(SelectEntries(entries, "dir"), "DirectoryRti")
                   \o MakeItems(SelectEntries(entries, "file"), "UnknownFileRti")))

\* _fetchAllChildren of the node's class
fetchAllChildren(s, ptype, entries) ==
    CASE s.kind = "DirectoryRti" ->
            {DirectoryFetchAllChildren(s.fileName, ptype, entries)}
      [] s.kind = "FormatRti" ->
            {FetchOutcome("FetchError", PyNone)}
            \cup {FetchOutcome(None, PyValue(t, xs)) :
                    t \in {"list", "tuple", "dict"}, xs \in FormatItems}
            \cup {FetchOutcome(None, PyNone)}
      [] OTHER -> {FetchOutcome(None, PyList(<<>>))}

----------------------------------------------------------------------------
(* BaseRti.open *)

open_flagFirst(s, dbg, closeOut, openOut) ==
    LET s0 == clearException(s)
        hc == Hook("_closeResources", closeOut, PyNone)
        ho == Hook("_openResources", openOut, PyNone)
    IN IF s0.isOpen /\ closeOut # None
       THEN Handle(s0, dbg, closeOut, PyNone, <<hc>>)
       ELSE LET s1 == [s0 EXCEPT !.isOpen = TRUE]
                h  == IF s0.isOpen THEN <<hc, ho>> ELSE <<ho>>
            IN IF openOut # None
               THEN Handle(s1, dbg, openOut, PyNone, h)
               ELSE Result(s1, None, PyNone, h, None)

open_keepsException(s, dbg, closeOut, openOut) ==
    LET hc == Hook("_closeResources", closeOut, PyNone)
        ho == Hook("_openResources", openOut, PyNone)
    IN IF s.isOpen /\ closeOut # None
       THEN Handle(s, dbg, closeOut, PyNone, <<hc>>)
       ELSE LET s1 == [s EXCEPT !.isOpen = FALSE]
                h  == IF s.isOpen THEN <<hc, ho>> ELSE <<ho>>
            IN IF openOut # None
               THEN Handle(s1, dbg, openOut, PyNone, h)
               ELSE Result([s1 EXCEPT !.isOpen = TRUE], None, PyNone, h, None)

open_noCloseFirst(s, dbg, closeOut, openOut) ==
    LET s0 == clearException(s)
        ho == Hook("_openResources", openOut, PyNone)
    IN IF openOut # None
       THEN Handle([s0 EXCEPT !.isOpen = FALSE], dbg, openOut, PyNone, <<ho>>)
       ELSE Result([s0 EXCEPT !.isOpen = TRUE], None, PyNone, <<ho>>, None)

open_closesAnyway(s, dbg, closeOut, openOut) ==
    LET s0 == clearException(s)
        hc == Hook("_closeResources", closeOut, PyNone)
        ho == Hook("_openResources", openOut, PyNone)
    IN IF s0.isOpen /\ closeOut # None
       THEN Handle([s0 EXCEPT !.isOpen = FALSE], dbg, closeOut, PyNone, <<hc>>)
       ELSE LET s1 == [s0 EXCEPT !.isOpen = FALSE]
                h  == IF s0.isOpen THEN <<hc, ho>> ELSE <<ho>>
            IN IF openOut # None
               THEN Handle(s1, dbg, openOut, PyNone, h)
               ELSE Result([s1 EXCEPT !.isOpen = TRUE], None, PyNone, h, None)

open(s, dbg, closeOut, openOut) ==
    LET s0 == clearException(s)
        hc == Hook("_closeResources", closeOut, PyNone)
        ho == Hook("_openResources", openOut, PyNone)
    IN IF s0.isOpen /\ closeOut # None
       THEN \* _closeResources raised: _isOpen is not reset
            Handle(s0, dbg, closeOut, PyNone, <<hc>>)
       ELSE LET s1 == [s0 EXCEPT !.isOpen = FALSE]
                h  == IF s0.isOpen THEN <<hc, ho>> ELSE <<ho>>
            IN IF openOut # None
               THEN Handle(s1, dbg, openOut, PyNone, h)
               ELSE Result([s1 EXCEPT !.isOpen = TRUE], None, PyNone, h, None)

----------------------------------------------------------------------------
(* BaseRti.close *)

close_unsetsFirst(s, dbg, closeOut) ==
    LET s0 == clearException(s)
        s1 == [s0 EXCEPT !.isOpen = FALSE]
        hc == Hook("_closeResources", closeOut, PyNone)
    IN IF s0.isOpen
       THEN IF closeOut # None
            THEN Handle(s1, dbg, closeOut, PyNone, <<hc>>)
            ELSE Result(s1, None, PyNone, <<hc>>, None)
       ELSE Result(s0, None, PyNone, <<>>, None)

close_unfetches(s, dbg, closeOut) ==
    LET s0 == clearException(s)
        hc == Hook("_closeResources", closeOut, PyNone)
    IN IF s0.isOpen
       THEN IF closeOut # None
            THEN Handle(s0, dbg, closeOut, PyNone, <<hc>>)
            ELSE Result([s0 EXCEPT !.isOpen = FALSE,
                                   !.childrenFetched = FALSE],
                        None, PyNone, <<hc>>, None)
       ELSE Result(s0, None, PyNone, <<>>, None)

close(s, dbg, closeOut) ==
    LET s0 == clearException(s)
        hc == Hook("_closeResources", closeOut, PyNone)
    IN IF s0.isOpen
       THEN IF closeOut # None
            THEN \* _closeResources raised: _isOpen is not reset
                 Handle(s0, dbg, closeOut, PyNone, <<hc>>)
            ELSE Result([s0 EXCEPT !.isOpen = FALSE], None, PyNone, <<hc>>,
                        None)
       ELSE Result(s0, None, PyNone, <<>>, None)

----------------------------------------------------------------------------
(* BaseRti.fetchChildren *)

\* The body of fetchChildren after its assertion.
fetchUnfetched(s, dbg, openOut, fetchOut) ==
    LET s0 == clearException(s)
        ro == IF s0.isOpen
              THEN Result(s0, None, PyNone, <<>>, None)
              ELSE open(s0, dbg, None, openOut)
        s1 == ro.node
        h  == ro.hooks
              \o <<Hook("_fetchAllChildren", fetchOut.raises, fetchOut.value)>>
    IN IF ro.raised # None
       THEN ro
       ELSE IF ~s1.isOpen
       THEN Result([s1 EXCEPT !.childrenFetched = TRUE], None, PyList(<<>>),
                   ro.hooks, ro.captured)
       ELSE IF fetchOut.raises # None
       THEN Handle(s1, dbg, fetchOut.raises, PyList(<<>>), h)
       ELSE IF ~is_a_sequence(fetchOut.value, FALSE)
       THEN \* childItems is already bound to the value of the hook
            Handle(s1, dbg, "AssertionError", fetchOut.value, h)
       ELSE Result([s1 EXCEPT !.childrenFetched = TRUE], None,
                   fetchOut.value, h, None)

fetchChildren_retriesOpen(s, dbg, openOut, fetchOut) ==
    LET r == fetchUnfetched(s, dbg, openOut, fetchOut)
    IN IF s.childrenFetched
       THEN Result(s, "AssertionError", PyNone, <<>>, None)
       ELSE IF r.raised = None /\ ~r.node.isOpen
       THEN [r EXCEPT !.node.childrenFetched = FALSE]
       ELSE r

fetchChildren_enumeratesClosed(s, dbg, openOut, fetchOut) ==
    LET s0 == clearException(s)
        h  == <<Hook("_fetchAllChildren", fetchOut.raises, fetchOut.value)>>
    IN IF s.childrenFetched
       THEN Result(s, "AssertionError", PyNone, <<>>, None)
       ELSE IF fetchOut.raises # None
       THEN Handle(s0, dbg, fetchOut.raises, PyList(<<>>), h)
       ELSE IF ~is_a_sequence(fetchOut.value, FALSE)
       THEN Handle(s0, dbg, "AssertionError", fetchOut.value, h)
       ELSE Result([s0 EXCEPT !.childrenFetched = TRUE], None,
                   fetchOut.value, h, None)

fetchChildren(s, dbg, openOut, fetchOut) ==
    IF s.childrenFetched
    THEN \* assert not self._childrenFetched, outside the try block
         Result(s, "AssertionError", PyNone, <<>>, None)
    ELSE fetchUnfetched(s, dbg, openOut, fetchOut)

----------------------------------------------------------------------------
(* BaseRti.decoration *)

decoration_fetchedFirst(s) ==
    IF s.childrenFetched THEN "iconOpen"
    ELSE IF s.exception # None THEN "iconError"
    ELSE "iconClosed"

decoration(s) ==
    IF s.exception # None THEN "iconError"
    ELSE IF s.childrenFetched THEN "iconOpen"
    ELSE "iconClosed"

----------------------------------------------------------------------------
(* UnknownFileRti.hasChildren *)

hasChildren_lazyDefault(s) == ~s.childrenFetched

\* Leaf nodes never have children.
hasChildren(s) == FALSE

----------------------------------------------------------------------------
(* BaseRti._checkFileExists *)

PyBool(b) == PyValue("bool", <<b>>)

\* What the file system can hold at a path; "other" is a path that exists
\* and is neither a directory nor a regular file (a FIFO, socket or device).
AnyPathTypes == {"absent", "file", "dir", "other"}

\* os.path.exists
exists(ptype) == ptype # "absent"

checkFileExists_noCapture(s, ptype) ==
    IF s.fileName # <<>> /\ ~exists(ptype)
    THEN Result(s, None, PyBool(FALSE), <<>>, None)
    ELSE Result(s, None, PyBool(TRUE), <<>>, None)

checkFileExists(s, ptype) ==
    IF s.fileName # <<>> /\ ~exists(ptype)
    THEN Result(setException(s, "IOError"), None, PyBool(FALSE), <<>>,
                "IOError")
    ELSE Result(s, None, PyBool(TRUE), <<>>, None)

----------------------------------------------------------------------------
(* BaseRti.arrayShape, nDims and isSliceable *)

MaxDims == 2         \* dimensions of the array view of a node

DimSizes == {0, 3}

Shapes == UNION { [1..n -> DimSizes] : n \in 0..MaxDims }

\* An array-like object as far as its shape matters.
Array(shape) == [type |-> "ndarray", shape |-> shape]

\* BaseRti._asArray returns None; a format-specific RTI overrides it.
asArrayOf(k) ==
    IF k = "FormatRti" THEN {PyNone} \cup {Array(sh) : sh \in Shapes}
    ELSE {PyNone}

\* arr is self._asArray
arrayShape(arr) == IF arr.type = "NoneType" THEN <<>> ELSE arr.shape

nDims(arr) == Len(arrayShape(arr))

isSliceable_hasArray(arr) == arr.type # "NoneType"

isSliceable(arr) == nDims(arr) > 0

----------------------------------------------------------------------------
(* BaseRti.dimensionNames and dimensionGroupPaths *)

DigitChars == <<"0", "1", "2", "3", "4", "5", "6", "7", "8", "9">>

\* '{}'.format(n) of a non-negative integer: its decimal digits
RECURSIVE format(_)
format(n) ==
    IF n < 10 THEN <<DigitChars[n + 1]>>
    ELSE format(n \div 10) \o <<DigitChars[(n % 10) + 1]>>

dimensionNames_fromOne(arr) ==
    [i \in 1..nDims(arr) |-> <<"D", "i", "m">> \o format(i)]

\* ['Dim{}'.format(dimNr) for dimNr in range(self.nDims)]
dimensionNames(arr) ==
    [i \in 1..nDims(arr) |-> <<"D", "i", "m">> \o format(i - 1)]

\* ['' for _dimNr in range(self.nDims)]
dimensionGroupPaths(arr) == [i \in 1..nDims(arr) |-> <<>>]

----------------------------------------------------------------------------
(* A tree of nodes.  The children of a node are the nodes its owner        *)
(* attached to it (AbstractLazyLoadTreeItem.childItems) after               *)
(* fetchChildren() returned them.                                           *)

TreeNodes == {"r", "a", "b", "c"}

TreeRoot == "r"

\* What the enumeration hook of a node of the tree returns when it succeeds.
TreeShape == [r |-> <<"a", "b">>, a |-> <<"c">>, b |-> <<>>, c |-> <<>>]

\* A node of the tree: the node, whether it is constructed and attached, its
\* childItems and (history) whether its resources are live: the last open
\* hook returned and no close hook returned since.
TreeNode(n, att, items, lv) ==
    [kind |-> n.kind, fileName |-> n.fileName, isOpen |-> n.isOpen,
     exception |-> n.exception, childrenFetched |-> n.childrenFetched,
     attached |-> att, childItems |-> items, live |-> lv]

NewTreeNode(att) == TreeNode(NewNode("FormatRti", <<>>), att, <<>>, FALSE)

RECURSIVE LiveAfter(_, _)
LiveAfter(lv, h) ==
    IF h = <<>> THEN lv
    ELSE LiveAfter(IF Head(h).out # None THEN lv
                   ELSE IF Head(h).hook = "_openResources" THEN TRUE
                   ELSE IF Head(h).hook = "_closeResources" THEN FALSE
                   ELSE lv,
                   Tail(h))

\* The node of the tree after a call with outcome r.
Touched(r) == [r.node EXCEPT !.live = LiveAfter(r.node.live, r.hooks)]

Event(n, ev, out) == [node |-> n, ev |-> ev, out |-> out]

HookEvents(n, h) == [i \in 1..Len(h) |-> Event(n, h[i].hook, h[i].out)]

\* The outcome of a call on a node of the tree: the tree after it, the
\* events of the call, the error it raised and the value it returned.
TreeReturn(t, tr, r, v) == [tree |-> t, trace |-> tr, raised |-> r, ret |-> v]

TreeResult(t, tr, r) == TreeReturn(t, tr, r, PyNone)

RECURSIVE finalize_selfFirst(_, _, _, _)
RECURSIVE finalizeChildren_selfFirst(_, _, _, _)
finalizeChildren_selfFirst(t, cs, co, dbg) ==
    IF cs = <<>> THEN TreeResult(t, <<>>, None)
    ELSE LET r1 == finalize_selfFirst(t, Head(cs), co, dbg)
             r2 == finalizeChildren_selfFirst(r1.tree, Tail(cs), co, dbg)
         IN IF r1.raised # None THEN r1
            ELSE TreeResult(r2.tree, r1.trace \o r2.trace, r2.raised)

finalize_selfFirst(t, n, co, dbg) ==
    LET r  == close(t[n], dbg, co[n])
        t1 == [t EXCEPT ![n] = Touched(r)]
        tr == <<Event(n, "close", None)>> \o HookEvents(n, r.hooks)
        rc == finalizeChildren_selfFirst(t1, t[n].childItems, co, dbg)
    IN IF r.raised # None THEN TreeResult(t1, tr, r.raised)
       ELSE TreeResult(rc.tree, tr \o rc.trace, rc.raised)

RECURSIVE finalize(_, _, _, _)
RECURSIVE finalizeChildren(_, _, _, _)
\* for child in self.childItems: child.finalize()
finalizeChildren(t, cs, co, dbg) ==
    IF cs = <<>> THEN TreeResult(t, <<>>, None)
    ELSE LET r1 == finalize(t, Head(cs), co, dbg)
             r2 == finalizeChildren(r1.tree, Tail(cs), co, dbg)
         IN IF r1.raised # None THEN r1
            ELSE TreeResult(r2.tree, r1.trace \o r2.trace, r2.raised)

\* BaseRti.finalize of node n; co[m] is the outcome of the close hook of m.
finalize(t, n, co, dbg) ==
    LET rc == finalizeChildren(t, t[n].childItems, co, dbg)
        r  == close(rc.tree[n], dbg, co[n])
    IN IF rc.raised # None THEN rc
       ELSE TreeResult([rc.tree EXCEPT ![n] = Touched(r)],
                       rc.trace \o <<Event(n, "close", None)>>
                                \o HookEvents(n, r.hooks),
                       r.raised)

\* The owner attaches the nodes that fetchChildren() of node n returned.
RECURSIVE Attach(_, _, _)
Attach(t, n, items) ==
    IF items = <<>> THEN t
    ELSE LET c == Head(items).nodeName
         IN Attach([t EXCEPT ![c] = NewTreeNode(TRUE),
                             ![n].childItems = Append(@, c)],
                   n, Tail(items))

\* _fetchAllChildren of a node of the tree
TreeFetchAllChildren(n) ==
    { FetchOutcome("FetchError", PyNone),
      FetchOutcome(None,
          PyList([i \in 1..Len(TreeShape[n]) |->
                    [cls |-> "FormatRti", nodeName |-> TreeShape[n][i]]])) }

----------------------------------------------------------------------------
(* The specification: one node, called by its owner in any order. *)

\* The fileName arguments a node is constructed with: none, and names of the
\* path /d, absolute and relative to the working directory.
FileArgs ==
    { <<>>, <<"/", "d">>, <<"d">>, <<"/", "d", "/">>, <<"/", "d", "/", ".">>,
      <<"/", "d", "/", ".", ".", "/", "d">> }

\* The fileName of a constructed node.
FileNames == { NewNode("BaseRti", f).fileName : f \in FileArgs }

PathTypes == {"absent", "file", "dir"}

\* os.path.isfile of a normalised name of a path of type ptype
isfile(f, ptype) == f # <<>> /\ ptype = "file"

\* os.path.isdir of a name of a path of type ptype
isdir(f, ptype) == f # <<>> /\ ptype = "dir"

Constructible_existingPath(k, f, ptype) ==
    CASE k = "UnknownFileRti" -> f # <<>> /\ ptype # "absent"
      [] k = "DirectoryRti"   -> (f # <<>> => isdir(f, ptype))
      [] OTHER                -> TRUE

Constructible_alwaysChecked(k, f, ptype) ==
    CASE k = "UnknownFileRti" -> isfile(f, ptype)
      [] k = "DirectoryRti"   -> isdir(f, ptype)
      [] OTHER                -> TRUE

\* The assertions of UnknownFileRti.__init__, on the fileName of the node,
\* and of DirectoryRti.__init__, on the fileName it was given.
Constructible(k, f, ptype) ==
    CASE k = "UnknownFileRti" -> isfile(NewNode(k, f).fileName, ptype)
      [] k = "DirectoryRti"   -> (f # <<>> => isdir(f, ptype))
      [] OTHER                -> TRUE

\* No node: what a constructor that raised leaves to its caller.
NoNode == NodeOf(None, <<>>, FALSE, None, FALSE)

\* cls(nodeName=..., fileName=f): BaseRti.__init__ and then the assertion of
\* the class; a constructor invokes no hook.
New(k, f, ptype) ==
    IF Constructible(k, f, ptype)
    THEN Result(NewNode(k, f), None, PyNone, <<>>, None)
    ELSE Result(NoNode, "AssertionError", PyNone, <<>>, None)

\* The node as a call finds it, with the state of its path.
Snapshot(n, ptype) ==
    [kind |-> n.kind, fileName |-> n.fileName, isOpen |-> n.isOpen,
     exception |-> n.exception, childrenFetched |-> n.childrenFetched,
     pathType |-> ptype]

\* A node that was constructed and not called yet.
NodeStart ==
    /\ isOpen = NewNode(kind, fileName).isOpen
    /\ exception = NewNode(kind, fileName).exception
    /\ childrenFetched = NewNode(kind, fileName).childrenFetched
    /\ lastOp = "none"
    /\ prevOp = "none"
    /\ pre = Snapshot(NewNode(kind, fileName), pathType)
    /\ raised = None
    /\ ret = PyNone
    /\ hooks = <<>>
    /\ captured = None
    /\ cached = PyNone
    /\ nFetchHook = 0
    /\ nCalls = 0

\* A tree of which only the root is constructed.
TreeStart ==
    /\ tree = [n \in TreeNodes |-> NewTreeNode(n = TreeRoot)]
    /\ trace = <<>>
    /\ tlast = [op |-> "none", node |-> TreeRoot, raised |-> None,
                ret |-> PyNone,
                pre |-> [n \in TreeNodes |-> NewTreeNode(n = TreeRoot)],
                prevOp |-> "none", prevNode |-> TreeRoot,
                prevRaised |-> None]
    /\ tCalls = 0

\* No call of a function or constructor was made yet.
NoCall ==
    [op |-> "none", arg |-> <<>>, raised |-> None, ret |-> PyNone,
     pre |-> <<>>, n |-> 0]

\* browse() is not called.
NoBrowse ==
    [pc |-> "idle", args |-> <<>>, list |-> <<>>, edits |-> 0, now |-> <<>>,
     rounds |-> <<>>, ret |-> <<>>]

\* A node without array view, an empty registry, nothing to import.
AuxStart ==
    /\ asArray = PyNone
    /\ registry = <<>>
    /\ modules = <<>>
    /\ call = NoCall
    /\ browsing = NoBrowse

Init ==
    /\ kind \in Kinds
    /\ fileName \in FileNames
    /\ pathType \in PathTypes
    /\ Constructible(kind, fileName, pathType)
    /\ listing \in (IF kind = "DirectoryRti" /\ isdir(fileName, pathType)
                    THEN {l \in Listings : Len(l) <= MaxListed}
                    ELSE {<<>>})
    /\ debugging \in BOOLEAN
    /\ NodeStart
    /\ TreeStart
    /\ AuxStart

Invocations(h, name) == {i \in DOMAIN h : h[i].hook = name}

Count(h, name) == Cardinality(Invocations(h, name))

\* The call enumerated the children: its hook returned a proper sequence.
Enumerated(r) ==
    /\ r.raised = None
    /\ \E i \in Invocations(r.hooks, "_fetchAllChildren") :
          r.hooks[i].out = None /\ is_a_sequence(r.hooks[i].val, FALSE)

\* The node and the history after a call of method op with outcome r.
Called(op, r) ==
    /\ nCalls < MaxCalls
    /\ isOpen' = r.node.isOpen
    /\ exception' = r.node.exception
    /\ childrenFetched' = r.node.childrenFetched
    /\ lastOp' = op
    /\ prevOp' = lastOp
    /\ pre' = Snapshot(self, pathType)
    /\ raised' = r.raised
    /\ ret' = r.ret
    /\ hooks' = r.hooks
    /\ captured' = r.captured
    /\ cached' = IF cached = PyNone /\ Enumerated(r) THEN r.ret ELSE cached
    /\ nFetchHook' = nFetchHook + Count(r.hooks, "_fetchAllChildren")
    /\ nCalls' = nCalls + 1
    /\ UNCHANGED <<kind, fileName, pathType, listing, debugging, treeVars,
                   auxVars>>

Open ==
    \E co \in closeResources(self), oo \in openResources(self) :
        Called("open", open(self, debugging, co, oo))

Close ==
    \E co \in closeResources(self) :
        Called("close", close(self, debugging, co))

FetchChildren ==
    \E oo \in openResources(self),
       fo \in fetchAllChildren(self, pathType, listing) :
        Called("fetchChildren", fetchChildren(self, debugging, oo, fo))

\* The errors the owner of a node stores on it with setException.
OwnerErrors == {"OSError"}

\* The owner calls setException(ex).
SetException ==
    \E ex \in OwnerErrors :
        Called("setException",
               Result(setException(self, ex), None, PyNone, <<>>, ex))

\* The owner calls clearException().
ClearException ==
    Called("clearException",
           Result(clearException(self), None, PyNone, <<>>, None))

\* BaseRti.finalize of a node to which no child is attached: close().
Finalize ==
    \E co \in closeResources(self) :
        Called("finalize", close(self, debugging, co))

\* The environment removes the node's path from the file system.
RemovePath ==
    /\ fileName # <<>>
    /\ pathType # "absent"
    /\ pathType' = "absent"
    /\ listing' = <<>>
    /\ UNCHANGED <<kind, fileName, debugging, isOpen, exception,
                   childrenFetched, lastOp, prevOp, pre, raised, ret, hooks,
                   captured, cached, nFetchHook, nCalls, treeVars, auxVars>>

Next ==
    \/ Open \/ Close \/ FetchChildren \/ Finalize
    \/ SetException \/ ClearException
    \/ RemovePath

Spec == Init /\ [][Next]_vars

TypeOK ==
    /\ kind \in Kinds
    /\ fileName \in FileNames
    /\ pathType \in PathTypes
    /\ isOpen \in BOOLEAN
    /\ childrenFetched \in BOOLEAN
    /\ debugging \in BOOLEAN
    /\ exception \in {None, "OpenError", "CloseError", "FetchError",
                      "OSError", "AssertionError", "IOError"}
    /\ nCalls \in 0..MaxCalls

----------------------------------------------------------------------------
(* The specification of the tree: its owner opens, closes, expands and     *)
(* finalizes the nodes it has attached, in any order.                       *)

InitTree ==
    /\ kind = "FormatRti"
    /\ fileName = <<>>
    /\ pathType = "absent"
    /\ listing = <<>>
    /\ debugging \in BOOLEAN
    /\ NodeStart
    /\ TreeStart
    /\ AuxStart

\* The tree and the history after a call of op on node n with outcome r.
TreeCalled(op, n, r) ==
    /\ tCalls < MaxTreeCalls
    /\ tree' = r.tree
    /\ trace' = r.trace
    /\ tlast' = [op |-> op, node |-> n, raised |-> r.raised,
                 ret |-> r.ret, pre |-> tree,
                 prevOp |-> tlast.op, prevNode |-> tlast.node,
                 prevRaised |-> tlast.raised]
    /\ tCalls' = tCalls + 1
    /\ UNCHANGED <<nodeVars, debugging, auxVars>>

TreeOpen ==
    \E n \in TreeNodes :
        /\ tree[n].attached
        /\ \E co \in closeResources(tree[n]), oo \in openResources(tree[n]) :
              LET r == open(tree[n], debugging, co, oo)
              IN TreeCalled("open", n,
                    TreeResult([tree EXCEPT ![n] = Touched(r)],
                               HookEvents(n, r.hooks), r.raised))

TreeClose ==
    \E n \in TreeNodes :
        /\ tree[n].attached
        /\ \E co \in closeResources(tree[n]) :
              LET r == close(tree[n], debugging, co)
              IN TreeCalled("close", n,
                    TreeResult([tree EXCEPT ![n] = Touched(r)],
                               <<Event(n, "close", None)>>
                                   \o HookEvents(n, r.hooks),
                               r.raised))

\* fetchChildren() of a node; the items it returns are not attached yet.
TreeExpand ==
    \E n \in TreeNodes :
        /\ tree[n].attached
        /\ \E oo \in openResources(tree[n]), fo \in TreeFetchAllChildren(n) :
              LET r == fetchChildren(tree[n], debugging, oo, fo)
              IN TreeCalled("fetchChildren", n,
                    TreeReturn([tree EXCEPT ![n] = Touched(r)],
                               HookEvents(n, r.hooks), r.raised, r.ret))

\* The owner attaches the items that the fetchChildren() it just called
\* returned to the node they are the children of.
TreeAttach ==
    /\ tlast.op = "fetchChildren"
    /\ tlast.raised = None
    /\ is_a_sequence(tlast.ret, FALSE)
    /\ tlast.ret.items # <<>>
    /\ tree[tlast.node].childItems = <<>>
    /\ tree' = Attach(tree, tlast.node, tlast.ret.items)
    /\ UNCHANGED <<trace, tlast, tCalls, nodeVars, debugging, auxVars>>

\* The owner calls setException(ex) on a node.
TreeSetException ==
    \E n \in TreeNodes, ex \in OwnerErrors :
        /\ tree[n].attached
        /\ TreeCalled("setException", n,
              TreeResult([tree EXCEPT ![n] = setException(@, ex)],
                         <<>>, None))

\* The owner calls clearException() on a node.
TreeClearException ==
    \E n \in TreeNodes :
        /\ tree[n].attached
        /\ TreeCalled("clearException", n,
              TreeResult([tree EXCEPT ![n] = clearException(@)],
                         <<>>, None))

TreeFinalize ==
    \E n \in TreeNodes :
        /\ tree[n].attached
        /\ \E co \in [TreeNodes -> {None, "CloseError"}] :
              /\ \A m \in TreeNodes : co[m] \in closeResources(tree[m])
              /\ TreeCalled("finalize", n, finalize(tree, n, co, debugging))

NextTree ==
    \/ TreeOpen \/ TreeClose \/ TreeExpand \/ TreeAttach \/ TreeFinalize
    \/ TreeSetException \/ TreeClearException

SpecTree == InitTree /\ [][NextTree]_vars

----------------------------------------------------------------------------
(* What the most recent call did, read off the history. *)

HookInvoked(name) == Invocations(hooks, name) # {}

HookRaised(name) ==
    \E i \in Invocations(hooks, name) : hooks[i].out # None

HookReturned(name) ==
    \E i \in Invocations(hooks, name) : hooks[i].out = None

\* The error the hook raised in the most recent call.
HookError(name) ==
    hooks[CHOOSE i \in Invocations(hooks, name) : hooks[i].out # None].out

\* The value the enumeration hook returned in the most recent call.
FetchedValue ==
    hooks[CHOOSE i \in Invocations(hooks, "_fetchAllChildren") : TRUE].val

\* The node's path was missing from the file system when the call was made.
PathWasMissing == pre.fileName # <<>> /\ pre.pathType = "absent"

NodeUnchanged ==
    /\ isOpen = pre.isOpen
    /\ exception = pre.exception
    /\ childrenFetched = pre.childrenFetched

----------------------------------------------------------------------------
(* Claims *)

\* C1: in non-debug mode open() on a closed node never raises: when the open
\* hook fails its error is stored in exception and isOpen is false; when the
\* hook succeeds isOpen is true and exception is None.
C1_OpenCapturesHookFailure ==
    (lastOp = "open" /\ ~debugging /\ ~pre.isOpen) =>
        /\ raised = None
        /\ HookInvoked("_openResources")
        /\ HookRaised("_openResources") =>
              (exception = HookError("_openResources") /\ ~isOpen)
        /\ HookReturned("_openResources") => (isOpen /\ exception = None)

C1_Witness ==
    /\ lastOp = "open" /\ ~debugging /\ ~pre.isOpen
    /\ HookRaised("_openResources")
    /\ exception = "OpenError" /\ ~isOpen /\ raised = None

\* C2 as stated: open() in non-debug mode on any node whose fileName does not
\* exist leaves isOpen false and exception set.
C2_MissingPathFailsOpen ==
    (lastOp = "open" /\ ~debugging /\ PathWasMissing) =>
        (raised = None /\ ~isOpen /\ exception # None)

\* C2 amended: open() in non-debug mode on a node whose fileName does not
\* exist returns normally; it ends with isOpen false and exception set exactly
\* when the open hook raised.  The default open hook (BaseRti, DirectoryRti,
\* UnknownFileRti) never looks at the path: such a node ends open, without
\* exception.
C2_MissingPathOpensUnlessHookFails ==
    (lastOp = "open" /\ ~debugging /\ PathWasMissing) =>
        /\ raised = None
        /\ (~isOpen /\ exception # None) <=> HookRaised("_openResources")
        /\ kind # "FormatRti" => (isOpen /\ exception = None)

C2_Witness ==
    /\ lastOp = "open" /\ ~debugging /\ PathWasMissing
    /\ kind = "BaseRti" /\ ~pre.isOpen
    /\ isOpen /\ exception = None /\ raised = None

\* C3 as stated: when the close hook fails during close() in non-debug mode,
\* the node is closed all the same: isOpen is false after close().
C3_FailedCloseStillCloses ==
    (lastOp = "close" /\ ~debugging /\ HookRaised("_closeResources")) =>
        (raised = None /\ ~isOpen)

\* C4 as stated: close() is safe on a closed node.  Of two consecutive
\* close() calls both return normally, isOpen is false after each of them, no
\* exception is captured by either, and the second, which finds the node
\* closed, does not invoke the close hook.
C4_DoubleCloseIsSafe ==
    (lastOp = "close" /\ prevOp = "close" /\ ~debugging) =>
        /\ ~pre.isOpen /\ pre.exception = None
        /\ raised = None
        /\ ~isOpen /\ exception = None /\ captured = None
        /\ hooks = <<>>

\* C5 as stated: fetchChildren() on a node whose previous fetchChildren()
\* succeeded returns the cached children, raises nothing and has no side
\* effect.
C5_SecondFetchReturnsCache ==
    (lastOp = "fetchChildren" /\ pre.childrenFetched /\ cached # PyNone) =>
        /\ raised = None
        /\ ret = cached
        /\ hooks = <<>>
        /\ NodeUnchanged

\* C6 as stated: the enumeration hook is invoked at most once over the life
\* of a node, also when its first invocation failed.
C6_EnumerationAtMostOnce == nFetchHook <= 1

\* C7: fetchChildren() on a closed node whose implied open() fails returns,
\* in non-debug mode, an empty list without invoking the enumeration hook,
\* marks the node fetched and leaves the error of the open in exception.
C7_FailedOpenMarksFetched ==
    (/\ lastOp = "fetchChildren" /\ ~debugging
     /\ ~pre.childrenFetched /\ ~pre.isOpen
     /\ HookRaised("_openResources")) =>
        /\ raised = None
        /\ ret = PyList(<<>>)
        /\ ~HookInvoked("_fetchAllChildren")
        /\ childrenFetched
        /\ ~isOpen
        /\ exception = HookError("_openResources")

C7_Witness ==
    /\ lastOp = "fetchChildren" /\ ~debugging
    /\ ~pre.childrenFetched /\ ~pre.isOpen
    /\ HookRaised("_openResources")
    /\ childrenFetched /\ exception = "OpenError" /\ ret = PyList(<<>>)

\* C8: when the enumeration hook raises during fetchChildren() in non-debug
\* mode, its error is stored in exception, the call returns an empty list
\* and the node shows the error decoration.
C8_FailedEnumerationIsCaptured ==
    (lastOp = "fetchChildren" /\ ~debugging /\ HookRaised("_fetchAllChildren")) =>
        /\ raised = None
        /\ exception = HookError("_fetchAllChildren")
        /\ ret = PyList(<<>>)
        /\ decoration(self) = "iconError"

C8_Witness ==
    /\ lastOp = "fetchChildren" /\ ~debugging
    /\ HookRaised("_fetchAllChildren")
    /\ exception \in {"FetchError", "OSError"}
    /\ ret = PyList(<<>>) /\ decoration(self) = "iconError"

\* C9 as stated: when the enumeration hook returns a value that is neither a
\* list nor a tuple, fetchChildren() in non-debug mode captures an error and
\* returns an empty list, not that value.
C9_MalformedValueGivesEmptyList ==
    (/\ lastOp = "fetchChildren" /\ ~debugging
     /\ HookReturned("_fetchAllChildren")
     /\ ~is_a_sequence(FetchedValue, FALSE)) =>
        /\ raised = None
        /\ exception # None
        /\ ret = PyList(<<>>)

\* C10 as stated: every open(), close() and fetchChildren() clears exception
\* before anything else, so in non-debug mode exception is, after a call,
\* what that very call stored (None when it stored nothing).
C10_ExceptionNeverStale ==
    (lastOp \in {"open", "close", "fetchChildren"} /\ ~debugging) =>
        exception = captured

\* C10 amended: open() and close() clear exception before anything else, and
\* so does fetchChildren() on a node whose children are not fetched; a
\* fetchChildren() on a fetched node fails its assertion before clearing and
\* leaves the exception of an earlier call in place.  In non-debug mode
\* exception is set only if the most recent call captured an error or raised.
C10_ExceptionClearedAfterAssertion ==
    (lastOp \in {"open", "close", "fetchChildren"} /\ ~debugging) =>
        /\ IF lastOp = "fetchChildren" /\ pre.childrenFetched
           THEN raised = "AssertionError" /\ exception = pre.exception
           ELSE raised = None /\ exception = captured
        /\ exception # None => (captured # None \/ raised # None)

C10_Witness ==
    /\ lastOp = "fetchChildren" /\ ~debugging /\ pre.childrenFetched
    /\ prevOp = "close" /\ exception = "CloseError"
    /\ captured = None /\ raised = "AssertionError"

\* The error of the hook that raised in the most recent call.
AnyHookRaised == \E i \in DOMAIN hooks : hooks[i].out # None

RaisedByHook == hooks[CHOOSE i \in DOMAIN hooks : hooks[i].out # None].out

\* C12: open() on a node that is already open closes it first and then
\* reopens it: the close hook is the first hook of the call, the open hook
\* follows it once it returned, and when both hooks succeed the node ends
\* open with exception None.
C12_OpenOnOpenNodeReopens ==
    (lastOp = "open" /\ pre.isOpen) =>
        /\ hooks # <<>>
        /\ hooks[1].hook = "_closeResources"
        /\ HookReturned("_closeResources") =>
              (Len(hooks) = 2 /\ hooks[2].hook = "_openResources")
        /\ (HookReturned("_closeResources") /\ HookReturned("_openResources")) =>
              (raised = None /\ isOpen /\ exception = None)

C12_Witness ==
    /\ lastOp = "open" /\ pre.isOpen
    /\ Len(hooks) = 2
    /\ hooks[1] = Hook("_closeResources", None, PyNone)
    /\ hooks[2] = Hook("_openResources", None, PyNone)
    /\ isOpen /\ exception = None

\* C13: in debug mode a failure of the open, close or enumeration hook inside
\* open(), close() or fetchChildren() is raised to the caller as it is, and
\* the exception of the node stays None.
C13_DebugModePropagates ==
    (/\ debugging
     /\ lastOp \in {"open", "close", "fetchChildren"}
     /\ AnyHookRaised) =>
        /\ raised = RaisedByHook
        /\ exception = None
        /\ captured = None

C13_Witness ==
    /\ debugging /\ lastOp = "fetchChildren"
    /\ HookRaised("_fetchAllChildren")
    /\ raised \in {"FetchError", "OSError"} /\ exception = None

----------------------------------------------------------------------------
(* Directory nodes *)

\* The specification of a directory node: a DirectoryRti over a directory
\* with any listing, called by its owner while its path may disappear.
InitDir ==
    /\ kind = "DirectoryRti"
    /\ fileName \in FileNames \ {<<>>}
    /\ pathType = "dir"
    /\ Constructible(kind, fileName, pathType)
    /\ listing \in Listings
    /\ debugging \in BOOLEAN
    /\ NodeStart
    /\ TreeStart
    /\ AuxStart

DirOpen == nCalls < MaxDirCalls /\ Open

DirClose == nCalls < MaxDirCalls /\ Close

DirFetchChildren == nCalls < MaxDirCalls /\ FetchChildren

DirFinalize == nCalls < MaxDirCalls /\ Finalize

DirSetException == nCalls < MaxDirCalls /\ SetException

DirClearException == nCalls < MaxDirCalls /\ ClearException

NextDir ==
    \/ DirOpen \/ DirClose \/ DirFetchChildren \/ DirFinalize
    \/ DirSetException \/ DirClearException
    \/ RemovePath

SpecDir == InitDir /\ [][NextDir]_vars

\* The call was a fetchChildren() of a directory node that listed its
\* directory, and the directory is as it was listed.
DirectoryFetched ==
    /\ lastOp = "fetchChildren"
    /\ kind = "DirectoryRti"
    /\ pathType = "dir"
    /\ HookReturned("_fetchAllChildren")

IsHidden(name) == name # <<>> /\ name[1] = "."

\* The place of the entry called name in the listing.
PlaceOf(name) == CHOOSE i \in DOMAIN listing : listing[i].name = name

\* C17: no entry whose name begins with '.' is among the children that
\* fetchChildren() of a directory node returns.
C17_NoHiddenChildren ==
    (lastOp = "fetchChildren" /\ kind = "DirectoryRti") =>
        \A i \in DOMAIN ret.items : ~IsHidden(ret.items[i].nodeName)

C17_Witness ==
    /\ DirectoryFetched
    /\ \E i \in DOMAIN listing :
          IsHidden(listing[i].name) /\ listing[i].type = "dir"
    /\ \E i \in DOMAIN listing :
          IsHidden(listing[i].name) /\ listing[i].type = "file"
    /\ ret.items # <<>>

\* C18: the children of a directory node are its subdirectory nodes followed
\* by its file nodes, each group in the order of the listing; the listing
\* [b, .h, s] with s a directory gives [DirectoryRti s, UnknownFileRti b].
C18_DirectoriesFirstInListingOrder ==
    DirectoryFetched =>
        /\ raised = None
        /\ ret.type = "list"
        /\ \A i, j \in DOMAIN ret.items :
              i < j =>
                /\ ~(/\ ret.items[i].cls = "UnknownFileRti"
                     /\ ret.items[j].cls = "DirectoryRti")
                /\ ret.items[i].cls = ret.items[j].cls =>
                      PlaceOf(ret.items[i].nodeName)
                          < PlaceOf(ret.items[j].nodeName)
        /\ listing = << [name |-> <<"b">>, type |-> "file"],
                        [name |-> <<".", "h">>, type |-> "file"],
                        [name |-> <<"s">>, type |-> "dir"] >> =>
              ret.items = << [cls |-> "DirectoryRti", nodeName |-> <<"s">>],
                             [cls |-> "UnknownFileRti", nodeName |-> <<"b">>] >>

C18_Witness ==
    /\ DirectoryFetched
    /\ listing = << [name |-> <<"b">>, type |-> "file"],
                    [name |-> <<".", "h">>, type |-> "file"],
                    [name |-> <<"s">>, type |-> "dir"] >>
    /\ ret.items = << [cls |-> "DirectoryRti", nodeName |-> <<"s">>],
                      [cls |-> "UnknownFileRti", nodeName |-> <<"b">>] >>

\* The entries a child stands for, and the children that stand for an entry.
ChildrenOf(e) == {i \in DOMAIN ret.items : ret.items[i].nodeName = e.name}

EntriesOf(c) == {i \in DOMAIN listing : listing[i].name = c.nodeName}

\* C19 as stated: after a successful fetchChildren() of a directory node its
\* children are, one for one, the entries of the listing that are not hidden,
\* whatever the kind of an entry.
C19_ChildrenAreAllVisibleEntries ==
    DirectoryFetched =>
        /\ \A i \in DOMAIN listing :
              ~IsHidden(listing[i].name) =>
                  Cardinality(ChildrenOf(listing[i])) = 1
        /\ \A i \in DOMAIN ret.items :
              /\ Cardinality(EntriesOf(ret.items[i])) = 1
              /\ ~IsHidden(ret.items[i].nodeName)

\* C19 amended: after a successful fetchChildren() of a directory node its
\* children are, one for one, the entries of the listing that are not hidden
\* and are a directory or a regular file; a directory entry gives a
\* DirectoryRti and a regular file an UnknownFileRti, and an entry of another
\* kind (neither isdir nor isfile) gives no child.
C19_ChildrenAreVisibleDirsAndFiles ==
    DirectoryFetched =>
        /\ \A i \in DOMAIN listing :
              Cardinality(ChildrenOf(listing[i])) =
                  IF /\ ~IsHidden(listing[i].name)
                     /\ listing[i].type \in {"dir", "file"}
                  THEN 1 ELSE 0
        /\ \A i \in DOMAIN ret.items :
              /\ Cardinality(EntriesOf(ret.items[i])) = 1
              /\ ret.items[i].cls =
                    IF listing[PlaceOf(ret.items[i].nodeName)].type = "dir"
                    THEN "DirectoryRti" ELSE "UnknownFileRti"

C19_Witness ==
    /\ DirectoryFetched
    /\ Len(listing) = 3
    /\ Len(ret.items) = 1
    /\ \E i \in DOMAIN listing :
          listing[i].type = "other" /\ ~IsHidden(listing[i].name)

\* C20: the decoration of a node is the error icon whenever exception is
\* set, also when the children are fetched; otherwise the visited (open) icon
\* when childrenFetched is true and the unvisited (closed) icon when not,
\* whatever isOpen is.
C20_DecorationOfExceptionAndFetched ==
    /\ exception # None => decoration(self) = "iconError"
    /\ (exception = None /\ childrenFetched) => decoration(self) = "iconOpen"
    /\ (exception = None /\ ~childrenFetched) =>
          decoration(self) = "iconClosed"
    /\ decoration(self) = decoration([self EXCEPT !.isOpen = ~isOpen])

C20_Witness ==
    /\ exception # None /\ childrenFetched /\ isOpen
    /\ decoration(self) = "iconError"

----------------------------------------------------------------------------
(* Trees *)

Attached == {n \in TreeNodes : tree[n].attached}

\* C11: in every reachable state of a node isOpen is true exactly when its
\* resources are live (the last open hook returned and no close hook
\* returned since), after any sequence of open, close, fetchChildren and
\* finalize with hooks that fail at will.
C11_OpenIffLive ==
    \A n \in Attached : tree[n].isOpen = tree[n].live

C11_Witness ==
    /\ tlast.op = "finalize"
    /\ \E i \in DOMAIN trace :
          trace[i].ev = "_closeResources" /\ trace[i].out # None
    /\ \E n \in Attached : tree[n].isOpen /\ tree[n].live
    /\ \E n \in Attached : tlast.pre[n].isOpen /\ ~tree[n].isOpen /\ ~tree[n].live

\* The nodes on which the most recent call called close(), in order.
RECURSIVE ClosedNodes(_)
ClosedNodes(tr) ==
    IF tr = <<>> THEN <<>>
    ELSE (IF Head(tr).ev = "close" THEN <<Head(tr).node>> ELSE <<>>)
         \o ClosedNodes(Tail(tr))

\* The subtree of node n, every child before its parent.
RECURSIVE PostOrder(_, _)
RECURSIVE PostOrderOfAll(_, _)
PostOrderOfAll(t, cs) ==
    IF cs = <<>> THEN <<>>
    ELSE PostOrder(t, Head(cs)) \o PostOrderOfAll(t, Tail(cs))

PostOrder(t, n) == PostOrderOfAll(t, t[n].childItems) \o <<n>>

Range(q) == {q[i] : i \in DOMAIN q}

IsPrefix(p, q) == Len(p) <= Len(q) /\ SubSeq(q, 1, Len(p)) = p

\* The close hook of node n raised in the most recent call.
CloseHookRaised(n) ==
    \E i \in DOMAIN trace :
        trace[i].node = n /\ trace[i].ev = "_closeResources"
                          /\ trace[i].out # None

SameState(x, y) ==
    /\ x.isOpen = y.isOpen
    /\ x.exception = y.exception
    /\ x.childrenFetched = y.childrenFetched

\* C14: a finalize() that returns has called close() on every node of the
\* subtree exactly once, every child before its parent; so has finalize() of
\* a root with fetched children at two levels.  (A finalize() that raises, in
\* debug mode, has done so up to the node whose close hook failed.)
C14_FinalizeClosesInPostOrder ==
    tlast.op = "finalize" =>
        IF tlast.raised = None
        THEN ClosedNodes(trace) = PostOrder(tree, tlast.node)
        ELSE /\ debugging
             /\ IsPrefix(ClosedNodes(trace), PostOrder(tree, tlast.node))

C14_Witness ==
    /\ tlast.op = "finalize" /\ tlast.node = TreeRoot
    /\ tlast.raised = None
    /\ tree["r"].childItems = <<"a", "b">>
    /\ tree["a"].childItems = <<"c">>
    /\ ClosedNodes(trace) = <<"c", "a", "b", "r">>

\* C15 as stated: finalize() is a no-op on an already finalized subtree.  A
\* finalize() of a node right after a finalize() of the same node that
\* returned invokes no close hook and changes isOpen, exception and
\* childrenFetched of no node.
C15_SecondFinalizeIsNoOp ==
    (/\ tlast.op = "finalize"
     /\ tlast.prevOp = "finalize"
     /\ tlast.prevNode = tlast.node
     /\ tlast.prevRaised = None) =>
        /\ tlast.raised = None
        /\ \A i \in DOMAIN trace : trace[i].ev = "close"
        /\ \A n \in TreeNodes : SameState(tree[n], tlast.pre[n])

\* C16: in non-debug mode finalize() of a subtree returns normally whatever
\* close hook fails, calls close() on every node of the subtree, and leaves
\* an exception on exactly the nodes whose close hook failed; nodes outside
\* the subtree are not touched.
C16_FinalizeSurvivesBadNode ==
    (tlast.op = "finalize" /\ ~debugging) =>
        /\ tlast.raised = None
        /\ ClosedNodes(trace) = PostOrder(tree, tlast.node)
        /\ \A n \in Range(PostOrder(tree, tlast.node)) :
              /\ tree[n].exception # None <=> CloseHookRaised(n)
              /\ ~CloseHookRaised(n) => ~tree[n].isOpen
        /\ \A n \in TreeNodes \ Range(PostOrder(tree, tlast.node)) :
              tree[n] = tlast.pre[n]

C16_Witness ==
    /\ tlast.op = "finalize" /\ ~debugging /\ tlast.node = TreeRoot
    /\ CloseHookRaised("a")
    /\ tree["a"].exception = "CloseError"
    /\ tlast.pre["r"].isOpen /\ ~tree["r"].isOpen
    /\ tree["r"].exception = None
    /\ ClosedNodes(trace) = <<"c", "a", "b", "r">>

----------------------------------------------------------------------------
(* The specification of the existence check: a node over any kind of path, *)
(* opened, closed, expanded and checked in any order while its path may     *)
(* disappear.                                                               *)

InitCheck ==
    /\ kind \in Kinds
    /\ fileName \in FileNames
    /\ pathType \in AnyPathTypes
    /\ Constructible(kind, fileName, pathType)
    /\ listing = <<>>
    /\ debugging \in BOOLEAN
    /\ NodeStart
    /\ TreeStart
    /\ AuxStart

CheckFileExists ==
    Called("_checkFileExists", checkFileExists(self, pathType))

NextCheck ==
    \/ Open \/ Close \/ FetchChildren \/ Finalize
    \/ SetException \/ ClearException
    \/ RemovePath \/ CheckFileExists

SpecCheck == InitCheck /\ [][NextCheck]_vars

\* C21: _checkFileExists of a node with a non-empty fileName returns true
\* exactly when the path exists, and when the path is absent it stores a
\* not-found error in exception and returns false; of a node with an empty
\* fileName it returns true and leaves exception as it was.  It never raises
\* and touches neither isOpen nor childrenFetched.
C21_CheckFileExists ==
    lastOp = "_checkFileExists" =>
        /\ raised = None
        /\ hooks = <<>>
        /\ isOpen = pre.isOpen
        /\ childrenFetched = pre.childrenFetched
        /\ IF pre.fileName # <<>>
           THEN /\ ret = PyBool(pre.pathType # "absent")
                /\ pre.pathType = "absent" =>
                      (exception = "IOError" /\ captured = "IOError")
                /\ pre.pathType # "absent" => exception = pre.exception
           ELSE /\ ret = PyBool(TRUE)
                /\ exception = pre.exception

C21_Witness ==
    /\ lastOp = "_checkFileExists"
    /\ pre.fileName # <<>> /\ pre.pathType = "absent"
    /\ pre.exception = None /\ pre.isOpen
    /\ exception = "IOError" /\ ret = PyBool(FALSE) /\ isOpen

----------------------------------------------------------------------------
(* The specification of construction: a node of one of the classes of the  *)
(* repository is constructed over a path, which may fail, and the node is   *)
(* then called as in Spec.                                                  *)

MaxNewEntries == 2   \* entries of the directory a node is constructed over

\* The classes whose constructor is BaseRti.__init__ or extends it.
Classes == {"BaseRti", "UnknownFileRti", "DirectoryRti"}

\* The directory a node is constructed over holds subdirectories and regular
\* files, one of them hidden.
NewNames == { <<"b">>, <<"s">>, <<".", "h">> }

NewListings ==
    { l \in Listings :
        /\ Len(l) <= MaxNewEntries
        /\ \A i \in DOMAIN l :
              l[i].name \in NewNames /\ l[i].type \in {"dir", "file"} }

InitNew ==
    /\ kind = None
    /\ fileName = <<>>
    /\ pathType \in AnyPathTypes
    /\ listing \in (IF pathType = "dir" THEN NewListings ELSE {<<>>})
    /\ debugging \in BOOLEAN
    /\ NodeStart
    /\ TreeStart
    /\ AuxStart

\* The caller constructs a node of class k over fileName f.
Construct ==
    \E k \in Classes, f \in FileArgs :
        LET r == New(k, f, pathType)
        IN /\ kind = None
           /\ nCalls < MaxCalls
           /\ kind' = r.node.kind
           /\ fileName' = r.node.fileName
           /\ isOpen' = r.node.isOpen
           /\ exception' = r.node.exception
           /\ childrenFetched' = r.node.childrenFetched
           /\ lastOp' = "__init__"
           /\ prevOp' = lastOp
           /\ pre' = Snapshot(self, pathType)
           /\ raised' = r.raised
           /\ ret' = r.ret
           /\ hooks' = r.hooks
           /\ captured' = r.captured
           /\ nCalls' = nCalls + 1
           /\ call' = [op |-> "__init__", arg |-> <<k, f>>,
                       raised |-> r.raised, ret |-> r.ret,
                       pre |-> <<>>, n |-> call.n + 1]
           /\ UNCHANGED <<pathType, listing, debugging, cached, nFetchHook,
                          treeVars, asArray, registry, modules, browsing>>

\* The calls of Spec, on the node once it is constructed.
NewOpen == kind # None /\ Open

NewClose == kind # None /\ Close

NewFetchChildren == kind # None /\ FetchChildren

NewFinalize == kind # None /\ Finalize

NewSetException == kind # None /\ SetException

NewClearException == kind # None /\ ClearException

NextNew ==
    \/ Construct
    \/ NewOpen \/ NewClose \/ NewFetchChildren \/ NewFinalize
    \/ NewSetException \/ NewClearException
    \/ RemovePath

SpecNew == InitNew /\ [][NextNew]_vars

\* The class and the fileName the most recent constructor call was given.
NewClass == call.arg[1]

NewFileName == call.arg[2]

\* C22: constructing an UnknownFileRti over a path that is a directory, does
\* not exist or is empty (or is anything but a regular file) fails the
\* assertion of the constructor and yields no node; over a regular file it
\* yields a node.
C22_UnknownFileNeedsRegularFile ==
    (lastOp = "__init__" /\ NewClass = "UnknownFileRti") =>
        IF NewFileName # <<>> /\ pre.pathType = "file"
        THEN raised = None /\ kind = "UnknownFileRti"
                           /\ fileName = <<"/", "d">>
        ELSE raised = "AssertionError" /\ kind = None

C22_Witness ==
    /\ lastOp = "__init__" /\ NewClass = "UnknownFileRti"
    /\ NewFileName # <<>> /\ pre.pathType = "dir"
    /\ raised = "AssertionError" /\ kind = None

----------------------------------------------------------------------------
(* Leaves, constructors and lazy loading *)

\* C23: an UnknownFileRti is a leaf in every reachable state: hasChildren is
\* false before and after any sequence of open, close and fetchChildren,
\* whatever isOpen, exception and childrenFetched are, and a fetchChildren()
\* of it that returns yields no child.
C23_UnknownFileIsLeaf ==
    kind = "UnknownFileRti" =>
        /\ ~hasChildren(self)
        /\ (lastOp = "fetchChildren" /\ raised = None) => ret.items = <<>>

C23_Witness ==
    /\ kind = "UnknownFileRti"
    /\ lastOp = "close" /\ prevOp = "fetchChildren"
    /\ childrenFetched /\ pre.isOpen /\ ~isOpen
    /\ ~hasChildren(self)

\* C24: constructing a DirectoryRti with a non-empty path that is not a
\* directory fails the assertion of the constructor and yields no node; with
\* an empty path (a virtual root) or over a directory it yields a node.
C24_DirectoryNeedsDirectoryOrNoPath ==
    (lastOp = "__init__" /\ NewClass = "DirectoryRti") =>
        IF NewFileName = <<>> \/ pre.pathType = "dir"
        THEN raised = None /\ kind = "DirectoryRti"
                           /\ fileName = (IF NewFileName = <<>> THEN <<>>
                                          ELSE <<"/", "d">>)
        ELSE raised = "AssertionError" /\ kind = None

C24_Witness ==
    /\ lastOp = "__init__" /\ NewClass = "DirectoryRti"
    /\ NewFileName # <<>> /\ pre.pathType = "file"
    /\ raised = "AssertionError" /\ kind = None

\* The node that _fetchAllChildren of the directory node constructed for
\* child i of the most recent call.
ChildOf(i) ==
    New(ret.items[i].cls, join(fileName, ret.items[i].nodeName),
        listing[PlaceOf(ret.items[i].nodeName)].type)

\* C28: loading is lazy.  A constructor invokes neither the open hook nor the
\* enumeration hook: the new node has isOpen false, exception None and
\* childrenFetched false.  fetchChildren() of a directory node constructs its
\* children without opening them or enumerating their children: the only
\* hooks of the call are the node's own, and every child is as new.
C28_LoadingIsLazy ==
    /\ (lastOp = "__init__" /\ raised = None) =>
          /\ hooks = <<>>
          /\ nFetchHook = 0
          /\ ~isOpen /\ exception = None /\ ~childrenFetched
    /\ DirectoryFetched =>
          /\ Count(hooks, "_fetchAllChildren") = 1
          /\ Count(hooks, "_openResources") = Len(hooks) - 1
          /\ nFetchHook = 1
          /\ \A i \in DOMAIN ret.items :
                /\ ChildOf(i).raised = None
                /\ ChildOf(i).hooks = <<>>
                /\ ChildOf(i).node.kind = ret.items[i].cls
                /\ ~ChildOf(i).node.isOpen
                /\ ChildOf(i).node.exception = None
                /\ ~ChildOf(i).node.childrenFetched

C28_Witness ==
    /\ DirectoryFetched
    /\ prevOp = "__init__"
    /\ Len(ret.items) = 2
    /\ ChildOf(1).node = NewNode("DirectoryRti", join(fileName, <<"s">>))
    /\ ChildOf(2).node = NewNode("UnknownFileRti", join(fileName, <<"b">>))

----------------------------------------------------------------------------
(* The specification of the array view: a node with the array view of its  *)
(* class, called as in Spec.                                                *)

MaxArrayCalls == 2   \* calls made on the node with an array view

InitArray ==
    /\ kind \in Kinds
    /\ fileName \in FileNames
    /\ pathType \in PathTypes
    /\ Constructible(kind, fileName, pathType)
    /\ listing = <<>>
    /\ debugging \in BOOLEAN
    /\ NodeStart
    /\ TreeStart
    /\ asArray \in asArrayOf(kind)
    /\ registry = <<>>
    /\ modules = <<>>
    /\ call = NoCall
    /\ browsing = NoBrowse

ArrayOpen == nCalls < MaxArrayCalls /\ Open

ArrayClose == nCalls < MaxArrayCalls /\ Close

ArrayFetchChildren == nCalls < MaxArrayCalls /\ FetchChildren

ArrayFinalize == nCalls < MaxArrayCalls /\ Finalize

ArraySetException == nCalls < MaxArrayCalls /\ SetException

ArrayClearException == nCalls < MaxArrayCalls /\ ClearException

NextArray ==
    \/ ArrayOpen \/ ArrayClose \/ ArrayFetchChildren \/ ArrayFinalize
    \/ ArraySetException \/ ArrayClearException

SpecArray == InitArray /\ [][NextArray]_vars

\* C25: for every RTI in every state nDims = len(arrayShape) and
\* isSliceable = (nDims > 0); a node without array view (every base node)
\* has arrayShape = (), nDims = 0 and isSliceable false.
C25_DimsOfArrayShape ==
    /\ nDims(asArray) = Len(arrayShape(asArray))
    /\ isSliceable(asArray) = (nDims(asArray) > 0)
    /\ (kind = "BaseRti" \/ asArray = PyNone) =>
          /\ arrayShape(asArray) = <<>>
          /\ nDims(asArray) = 0
          /\ ~isSliceable(asArray)

C25_Witness ==
    /\ kind = "FormatRti" /\ lastOp = "close" /\ ~isOpen
    /\ asArray = Array(<<>>)
    /\ nDims(asArray) = 0 /\ ~isSliceable(asArray)

----------------------------------------------------------------------------
(* The registry of inspectors and registerDefaultInspectorPlugins *)

MaxRegistrations == 4   \* calls made on the registry in one behaviour

Identifiers == {"debug inspector", "Qt/Table", "Qt/Text"}

FullNames == {"libargos.inspector.debug.DebugInspector",
              "libargos.inspector.table.TableInspector",
              "libargos.inspector.text.TextInspector"}

RegItem(identifier, fullName) ==
    [identifier |-> identifier, fullName |-> fullName]

\* The outcome of a call on a registry: the items after it and the error it
\* raised (None: it returned).
RegResult(items, r) == [registry |-> items, raised |-> r]

HasIdentifier(items, identifier) ==
    \E i \in DOMAIN items : items[i].identifier = identifier

registerInspector_overwrites(items, identifier, fullName) ==
    IF HasIdentifier(items, identifier)
    THEN RegResult([i \in DOMAIN items |->
                      IF items[i].identifier = identifier
                      THEN RegItem(identifier, fullName) ELSE items[i]],
                   None)
    ELSE RegResult(Append(items, RegItem(identifier, fullName)), None)

\* registry.registerInspector(identifier, fullName)
registerInspector(items, identifier, fullName) ==
    IF HasIdentifier(items, identifier)
    THEN RegResult(items, "DuplicateKeyError")
    ELSE RegResult(Append(items, RegItem(identifier, fullName)), None)

registerDefaultInspectorPlugins(items) ==
    LET r == registerInspector(items, "debug inspector",
                               "libargos.inspector.debug.DebugInspector")
    IN IF r.raised # None THEN r
       ELSE registerInspector(r.registry, "Qt/Table",
                              "libargos.inspector.table.TableInspector")

InitRegistry ==
    /\ kind = "BaseRti"
    /\ fileName = <<>>
    /\ pathType = "absent"
    /\ listing = <<>>
    /\ debugging \in BOOLEAN
    /\ NodeStart
    /\ TreeStart
    /\ AuxStart

\* The registry and the history after a call of op with outcome r.
RegCalled(op, arg, r) ==
    /\ call.n < MaxRegistrations
    /\ registry' = r.registry
    /\ call' = [op |-> op, arg |-> arg, raised |-> r.raised, ret |-> PyNone,
                pre |-> registry, n |-> call.n + 1]
    /\ UNCHANGED <<nodeVars, debugging, treeVars, asArray, modules,
                   browsing>>

RegisterInspector ==
    \E identifier \in Identifiers, fullName \in FullNames :
        RegCalled("registerInspector", <<identifier, fullName>>,
                  registerInspector(registry, identifier, fullName))

RegisterDefaultInspectorPlugins ==
    RegCalled("registerDefaultInspectorPlugins", <<>>,
              registerDefaultInspectorPlugins(registry))

NextRegistry == RegisterInspector \/ RegisterDefaultInspectorPlugins

SpecRegistry == InitRegistry /\ [][NextRegistry]_vars

\* C26: registering an identifier that is already in the registry fails with
\* a duplicate-key error and leaves the items, the first registration among
\* them, as they were; a new identifier is appended.  So the identifiers of a
\* registry are distinct, and the default inspector registration succeeds on
\* an empty registry and leaves the two entries 'debug inspector' and
\* 'Qt/Table'.
C26_DuplicateIdentifierFails ==
    /\ call.op = "registerInspector" =>
          IF HasIdentifier(call.pre, call.arg[1])
          THEN call.raised = "DuplicateKeyError" /\ registry = call.pre
          ELSE /\ call.raised = None
               /\ registry =
                     Append(call.pre, RegItem(call.arg[1], call.arg[2]))
    /\ (call.op = "registerDefaultInspectorPlugins" /\ call.pre = <<>>) =>
          /\ call.raised = None
          /\ registry =
                << RegItem("debug inspector",
                           "libargos.inspector.debug.DebugInspector"),
                   RegItem("Qt/Table",
                           "libargos.inspector.table.TableInspector") >>
    /\ \A i, j \in DOMAIN registry :
          i # j => registry[i].identifier # registry[j].identifier

C26_Witness ==
    /\ call.op = "registerInspector"
    /\ call.arg = <<"Qt/Table", "libargos.inspector.text.TextInspector">>
    /\ call.raised = "DuplicateKeyError"
    /\ registry =
          << RegItem("debug inspector",
                     "libargos.inspector.debug.DebugInspector"),
             RegItem("Qt/Table",
                     "libargos.inspector.table.TableInspector") >>

----------------------------------------------------------------------------
(* libargos.utils.cls.import_symbol *)

MaxImports == 2      \* calls of import_symbol in one behaviour

\* Names are sequences of characters.
FullSymbolNames ==
    { <<"m", ".", "S">>, <<"m", ".", "T">>, <<"S">>, <<>>, <<".", "S">>,
      <<"m", ".">>, <<"n", ".", "S">>, <<"m", ".", "m">>,
      <<"m", ".", "m", ".", "S">>, <<"m", ".", ".", "S">>,
      <<"m", ".", "S", ".", "S">> }

ModuleNames == { <<"m">>, <<"m", ".", "m">> }

Symbols == { <<"S">> }

\* A module that can be imported, with its attributes, or one that cannot.
Module(e, syms) == [exists |-> e, symbols |-> syms]

\* The tables of the modules that can be imported: a submodule needs its
\* package.
ModuleTables ==
    { t \in [ModuleNames -> {Module(FALSE, {})}
                            \cup {Module(TRUE, syms) : syms \in SUBSET Symbols}] :
        t[<<"m", ".", "m">>].exists => t[<<"m">>].exists }

Dots(name) == {i \in DOMAIN name : name[i] = "."}

\* full_symbol_name.rsplit('.', 1)
rsplit(name) ==
    IF Dots(name) = {} THEN <<name>>
    ELSE LET i == CHOOSE d \in Dots(name) : \A e \in Dots(name) : e <= d
         IN <<SubSeq(name, 1, i - 1), SubSeq(name, i + 1, Len(name))>>

\* The error of __import__(module_name, fromlist=[symbol_name]), None when
\* it returns the module.
importError(mods, module_name) ==
    IF module_name = <<>> THEN "ValueError"      \* Empty module name
    ELSE IF module_name \in DOMAIN mods /\ mods[module_name].exists THEN None
    ELSE "ImportError"

\* hasattr(module, symbol_name) once the module is imported with the symbol
\* in its fromlist: an attribute of the module or a submodule of the package.
hasattr(mods, module_name, symbol_name) ==
    \/ symbol_name \in mods[module_name].symbols
    \/ /\ (module_name \o <<".">> \o symbol_name) \in DOMAIN mods
       /\ mods[module_name \o <<".">> \o symbol_name].exists

\* The object that full_symbol_name names.
PySymbol(full_symbol_name) == PyValue("object", full_symbol_name)

ImpResult(r, v) == [raised |-> r, ret |-> v]

import_symbol(mods, full_symbol_name) ==
    LET parts == rsplit(full_symbol_name)
    IN IF Len(parts) = 2
       THEN IF importError(mods, parts[1]) # None
            THEN ImpResult(importError(mods, parts[1]), PyNone)
            ELSE IF ~hasattr(mods, parts[1], parts[2])
            THEN ImpResult("AttributeError", PyNone)
            ELSE ImpResult(None, PySymbol(full_symbol_name))
       ELSE ImpResult("ImportError", PyNone)

InitImport ==
    /\ kind = "BaseRti"
    /\ fileName = <<>>
    /\ pathType = "absent"
    /\ listing = <<>>
    /\ debugging \in BOOLEAN
    /\ NodeStart
    /\ TreeStart
    /\ asArray = PyNone
    /\ registry = <<>>
    /\ modules \in ModuleTables
    /\ call = NoCall
    /\ browsing = NoBrowse

ImportSymbol ==
    \E name \in FullSymbolNames :
        LET r == import_symbol(modules, name)
        IN /\ call.n < MaxImports
           /\ call' = [op |-> "import_symbol", arg |-> name,
                       raised |-> r.raised, ret |-> r.ret,
                       pre |-> <<>>, n |-> call.n + 1]
           /\ UNCHANGED <<nodeVars, debugging, treeVars, asArray, registry,
                          modules, browsing>>

NextImport == ImportSymbol

SpecImport == InitImport /\ [][NextImport]_vars

\* The module part and the symbol part of the name of the most recent call.
ModulePart ==
    IF Dots(call.arg) = {} THEN <<>> ELSE rsplit(call.arg)[1]

SymbolPart ==
    IF Dots(call.arg) = {} THEN call.arg ELSE rsplit(call.arg)[2]

ModuleExists == ModulePart \in DOMAIN modules /\ modules[ModulePart].exists

\* C27 as stated: import_symbol raises ImportError when the name has no
\* module part or the module does not exist, AttributeError when the module
\* lacks the symbol, and returns the symbol otherwise, whatever the debug
\* flag is.
C27_ImportErrorWithoutModule ==
    call.op = "import_symbol" =>
        IF ModulePart = <<>> \/ ~ModuleExists
        THEN call.raised = "ImportError"
        ELSE IF ~hasattr(modules, ModulePart, SymbolPart)
        THEN call.raised = "AttributeError"
        ELSE call.raised = None /\ call.ret = PySymbol(call.arg)

----------------------------------------------------------------------------
(* Hooks and isOpen *)

\* The most recent call was a fetchChildren() that enumerated the children.
SuccessfulFetch ==
    /\ lastOp = "fetchChildren"
    /\ raised = None
    /\ ~pre.childrenFetched /\ childrenFetched
    /\ HookReturned("_fetchAllChildren")

\* What C29 says of a fetchChildren() call by itself: the enumeration hook
\* runs only on an open node, a closed node is opened first, and a
\* successful fetch leaves the node open.
FetchEnumeratesOpenNode ==
    lastOp = "fetchChildren" =>
        /\ HookInvoked("_fetchAllChildren") =>
              /\ isOpen
              /\ pre.isOpen \/ hooks[1] = Hook("_openResources", None, PyNone)
        /\ (~pre.isOpen /\ ~pre.childrenFetched) =>
              /\ hooks # <<>>
              /\ hooks[1].hook = "_openResources"
              /\ HookInvoked("_fetchAllChildren") <=>
                    HookReturned("_openResources")
        /\ SuccessfulFetch => isOpen

\* The most recent call was an open() of an open node that closed the node
\* and then failed to open it again.
FailedReopen ==
    /\ lastOp = "open"
    /\ pre.isOpen
    /\ Len(hooks) = 2
    /\ hooks[1] = Hook("_closeResources", None, PyNone)
    /\ hooks[2].hook = "_openResources" /\ hooks[2].out # None

\* C29 as stated: fetchChildren() never invokes the enumeration hook on a
\* node that is not open (a closed node is opened first and enumerated only
\* if that worked), and after a successful fetch the node stays open until
\* an explicit close() or finalize().
C29_OpenUntilExplicitClose ==
    /\ []FetchEnumeratesOpenNode
    /\ [][(SuccessfulFetch /\ ~isOpen') =>
            lastOp' \in {"close", "finalize"}]_vars

\* C29 amended: fetchChildren() never invokes the enumeration hook on a node
\* that is not open, and after a successful fetch the node stays open until
\* a close(), a finalize() or an open(): open() on the open node closes it
\* first and leaves it closed when its open hook fails.  No other call takes
\* a node from open to closed.
C29_OpenUntilCloseOrFailedReopen ==
    /\ []FetchEnumeratesOpenNode
    /\ [][(isOpen /\ ~isOpen') =>
            \/ lastOp' \in {"close", "finalize"}
            \/ (lastOp' = "open" /\ FailedReopen')]_vars

C29_Witness ==
    /\ FailedReopen
    /\ prevOp = "fetchChildren" /\ nCalls = 2
    /\ pre.childrenFetched /\ cached # PyNone
    /\ ~isOpen

\* The hooks of node n in the events tr are guarded by isOpen, which is o
\* before them: the open hook runs on a closed node, the close hook on an open
\* one, and a hook that returns flips isOpen.
RECURSIVE HooksGuarded(_, _, _)
HooksGuarded(n, o, tr) ==
    IF tr = <<>> THEN tree[n].isOpen = o
    ELSE LET e == Head(tr)
         IN IF e.node # n \/ e.ev \notin {"_openResources", "_closeResources"}
            THEN HooksGuarded(n, o, Tail(tr))
            ELSE /\ o = (e.ev = "_closeResources")
                 /\ HooksGuarded(n, IF e.out = None THEN ~o ELSE o, Tail(tr))

\* C30: over any sequence of open, close, fetchChildren and finalize calls
\* the close hook of a node is invoked only while its isOpen is true and the
\* open hook only while it is false; the open and close hooks that return
\* alternate on every node, starting with an open (live tells that the last
\* hook that returned was an open hook).
C30_HooksGuardedByIsOpen ==
    \A n \in Attached :
        /\ HooksGuarded(n, tlast.pre[n].isOpen, trace)
        /\ HooksGuarded(n, tlast.pre[n].live, trace)
        /\ tree[n].live = tree[n].isOpen

C30_Witness ==
    /\ tlast.op = "finalize" /\ tlast.node = TreeRoot
    /\ tlast.pre["a"].isOpen /\ tlast.pre["b"].isOpen /\ tlast.pre["r"].isOpen
    /\ CloseHookRaised("b")
    /\ ~tree["a"].isOpen /\ tree["b"].isOpen /\ ~tree["r"].isOpen

\* C31: when open() is called on an open node and the close hook of the
\* implied close fails, open() in non-debug mode stores that error, does not
\* invoke the open hook and leaves isOpen true: an exception after open()
\* does not imply that the node is closed.
C31_FailedImpliedCloseStaysOpen ==
    (/\ lastOp = "open" /\ ~debugging /\ pre.isOpen
     /\ HookRaised("_closeResources")) =>
        /\ raised = None
        /\ hooks = <<Hook("_closeResources", HookError("_closeResources"),
                          PyNone)>>
        /\ ~HookInvoked("_openResources")
        /\ exception = HookError("_closeResources")
        /\ captured = exception
        /\ isOpen

C31_Witness ==
    /\ lastOp = "open" /\ ~debugging /\ pre.isOpen
    /\ HookRaised("_closeResources")
    /\ exception = "CloseError" /\ isOpen /\ raised = None
    /\ hooks = <<Hook("_closeResources", "CloseError", PyNone)>>

\* The hook ev of node n was invoked in the most recent call on the tree and
\* raised (returned).
TreeHookRaised(n, ev) ==
    \E i \in DOMAIN trace :
        trace[i].node = n /\ trace[i].ev = ev /\ trace[i].out # None

TreeHookReturned(n, ev) ==
    \E i \in DOMAIN trace :
        trace[i].node = n /\ trace[i].ev = ev /\ trace[i].out = None

\* C32: childrenFetched is monotonic.  It is false on a new node; no open(),
\* close(), finalize() or fetchChildren() resets it to false; it becomes true
\* only in a fetchChildren() of the node, when the enumeration hook returned
\* or when the node could not be opened, never when the enumeration hook
\* failed.  (In non-debug mode a fetchChildren() of an unfetched node sets it
\* in exactly those two cases.)
C32_ChildrenFetchedIsMonotonic ==
    /\ tlast.op = "none" => \A n \in TreeNodes : ~tree[n].childrenFetched
    /\ \A n \in TreeNodes :
          /\ tlast.pre[n].childrenFetched => tree[n].childrenFetched
          /\ (~tlast.pre[n].attached /\ tree[n].attached) =>
                ~tree[n].childrenFetched
          /\ (~tlast.pre[n].childrenFetched /\ tree[n].childrenFetched) =>
                /\ tlast.op = "fetchChildren" /\ tlast.node = n
                /\ ~TreeHookRaised(n, "_fetchAllChildren")
                /\ \/ TreeHookReturned(n, "_fetchAllChildren")
                   \/ TreeHookRaised(n, "_openResources")
    /\ (/\ tlast.op = "fetchChildren" /\ ~debugging
        /\ ~tlast.pre[tlast.node].childrenFetched) =>
          (tree[tlast.node].childrenFetched <=>
              ~TreeHookRaised(tlast.node, "_fetchAllChildren"))

C32_Witness ==
    /\ tlast.op = "finalize" /\ tlast.node = TreeRoot
    /\ tlast.prevOp = "open"
    /\ tree["r"].childrenFetched /\ tree["a"].childrenFetched
    /\ ~tree["b"].childrenFetched /\ tree["b"].attached
    /\ tlast.pre["a"].isOpen /\ ~tree["a"].isOpen
    /\ tree["c"].attached /\ ~tree["c"].isOpen

----------------------------------------------------------------------------
(* argos.main.browse *)

MaxRounds == 4       \* rounds of the loop of browse() in one behaviour
MaxEdits == 2        \* changes callbacks make to the list fileNames
MaxBrowseCalls == 2  \* calls callbacks make on the node

EXIT_CODE_RESTART == 66

ExitCodes == {0, 1, EXIT_CODE_RESTART}

\* The arguments of browse(); the ones left out keep their default.
\* fileNames is a list object: browse() passes the object on, so that
\* whoever holds it can change its contents while browse() runs.
BrowseArgs ==
    [fileNames : {<<>>, <<"f">>}, inspectorFullName : {None, "Qt/Table"}]

\* _browse executes the application once: it returns the exit code of the
\* application or raises.
BrowseOutcome(ex, code) == [raises |-> ex, code |-> code]

BrowseOutcomes ==
    {BrowseOutcome(None, c) : c \in ExitCodes} \cup {BrowseOutcome("Error", 0)}

\* A round of the loop: the arguments _browse was given (fileNames as the
\* list read when _browse was called), the number of changes made to the
\* list before that, and the outcome of _browse.
Round(args, edits, out) == [args |-> args, edits |-> edits, out |-> out]

\* What _browse is given in state b: the parameters of browse(), which are
\* never reassigned; fileNames is the list object with its contents of now.
given(b) ==
    [fileNames |-> b.list, inspectorFullName |-> b.args.inspectorFullName]

restarts_onFailure(exitCode) == exitCode # 0

\* if exitCode != EXIT_CODE_RESTART: return exitCode; else: next round
restarts(exitCode) == exitCode = EXIT_CODE_RESTART

\* browse() calls _browse, which sets the application up and loads the
\* files; the set-up raises (ex # None) or _browse enters the event loop.
browseBegin(b, ex) ==
    IF ex # None
    THEN [b EXCEPT !.pc = "raised",
                   !.rounds = Append(@, Round(given(b), b.edits,
                                              BrowseOutcome(ex, 0)))]
    ELSE [b EXCEPT !.pc = "exec", !.now = Round(given(b), b.edits, <<>>)]

\* The event loop ends in out: _browse returns or raises, and browse()
\* tests the exit code.
browseRound(b, out) ==
    LET rs == Append(b.rounds, [b.now EXCEPT !.out = out])
    IN IF out.raises # None
       THEN [b EXCEPT !.pc = "raised", !.rounds = rs, !.now = <<>>]
       ELSE IF restarts(out.code)
       THEN [b EXCEPT !.pc = "loop", !.rounds = rs, !.now = <<>>]
       ELSE [b EXCEPT !.pc = "done", !.rounds = rs, !.now = <<>>,
                      !.ret = <<out.code>>]

InitBrowse ==
    /\ kind = "BaseRti"
    /\ fileName = <<>>
    /\ pathType = "absent"
    /\ listing = <<>>
    /\ debugging \in BOOLEAN
    /\ NodeStart
    /\ TreeStart
    /\ asArray = PyNone
    /\ registry = <<>>
    /\ modules = <<>>
    /\ call = NoCall
    /\ \E args \in BrowseArgs :
          browsing = [pc |-> "loop", args |-> args, list |-> args.fileNames,
                      edits |-> 0, now |-> <<>>, rounds |-> <<>>,
                      ret |-> <<>>]

\* Lines 63-72 of browse() and _browse up to the event loop.
BrowseBegin ==
    /\ browsing.pc = "loop"
    /\ Len(browsing.rounds) < MaxRounds
    /\ \E ex \in {None, "Error"} : browsing' = browseBegin(browsing, ex)
    /\ UNCHANGED <<nodeVars, debugging, treeVars, asArray, registry, modules,
                   call>>

\* The event loop of _browse is left; lines 73-77 of browse().
BrowseRound ==
    /\ browsing.pc = "exec"
    /\ \E out \in BrowseOutcomes : browsing' = browseRound(browsing, out)
    /\ UNCHANGED <<nodeVars, debugging, treeVars, asArray, registry, modules,
                   call>>

\* A callback of the event loop appends a name to the list that browse()
\* was given as fileNames.
BrowseAppend ==
    /\ browsing.pc = "exec"
    /\ browsing.edits < MaxEdits
    /\ browsing' = [browsing EXCEPT !.list = Append(@, "g"),
                                    !.edits = @ + 1]
    /\ UNCHANGED <<nodeVars, debugging, treeVars, asArray, registry, modules,
                   call>>

\* A callback of the event loop calls a method of the node.
InEventLoop == browsing.pc = "exec" /\ nCalls < MaxBrowseCalls

BrowseOpen == InEventLoop /\ Open

BrowseClose == InEventLoop /\ Close

BrowseFetchChildren == InEventLoop /\ FetchChildren

BrowseFinalize == InEventLoop /\ Finalize

BrowseSetException == InEventLoop /\ SetException

BrowseClearException == InEventLoop /\ ClearException

NextBrowse ==
    \/ BrowseBegin \/ BrowseRound
    \/ BrowseAppend
    \/ BrowseOpen \/ BrowseClose \/ BrowseFetchChildren \/ BrowseFinalize
    \/ BrowseSetException \/ BrowseClearException

SpecBrowse == InitBrowse /\ [][NextBrowse]_vars

\* Round i of browse() returned a code that asks for no restart.
ReturnedNoRestart(i) ==
    /\ browsing.rounds[i].out.raises = None
    /\ browsing.rounds[i].out.code # EXIT_CODE_RESTART

ReturnedRestart(i) ==
    /\ browsing.rounds[i].out.raises = None
    /\ browsing.rounds[i].out.code = EXIT_CODE_RESTART

\* browse() calls _browse again for as long as it returns EXIT_CODE_RESTART
\* and returns exactly the first exit code that differs from it; it has
\* returned if and only if some round returned such a code, and goes on
\* looping while every round asks for a restart.  (A round in which _browse
\* raises ends browse() with that error and no exit code.)
LoopsUntilNoRestart ==
    LET rounds == browsing.rounds
        n == Len(rounds)
    IN /\ \A i \in 1..n : i < n => ReturnedRestart(i)
       /\ browsing.pc = "done" <=> (\E i \in 1..n : ReturnedNoRestart(i))
       /\ browsing.pc = "done" =>
             (ReturnedNoRestart(n) /\ browsing.ret = <<rounds[n].out.code>>)
       /\ browsing.pc \in {"loop", "exec"} <=>
             (\A i \in 1..n : ReturnedRestart(i))
       /\ browsing.pc # "done" => browsing.ret = <<>>

----------------------------------------------------------------------------
(* Dimension names *)

\* The number that the decimal digits ds write.
RECURSIVE int(_)
int(ds) ==
    IF ds = <<>> THEN 0
    ELSE 10 * int(SubSeq(ds, 1, Len(ds) - 1))
         + (CHOOSE d \in 0..9 : DigitChars[d + 1] = ds[Len(ds)])

\* C34: for a node that keeps the accessors of BaseRti, dimensionNames is
\* the sequence Dim0, Dim1, ... of length nDims and dimensionGroupPaths is a
\* sequence of nDims empty strings; both are empty when nDims is 0, as they
\* are for every base node.
C34_DefaultDimensionNames ==
    LET names == dimensionNames(asArray)
        paths == dimensionGroupPaths(asArray)
    IN /\ Len(names) = nDims(asArray)
       /\ Len(paths) = nDims(asArray)
       /\ \A i \in DOMAIN names :
             /\ Len(names[i]) > 3
             /\ SubSeq(names[i], 1, 3) = <<"D", "i", "m">>
             /\ \A j \in 4..Len(names[i]) :
                   \E d \in 1..10 : DigitChars[d] = names[i][j]
             /\ int(SubSeq(names[i], 4, Len(names[i]))) = i - 1
       /\ \A i \in DOMAIN paths : paths[i] = <<>>
       /\ nDims(asArray) = 2 =>
             names = << <<"D", "i", "m", "0">>, <<"D", "i", "m", "1">> >>
       /\ (kind = "BaseRti" \/ nDims(asArray) = 0) =>
             (names = <<>> /\ paths = <<>>)

C34_Witness ==
    /\ kind = "FormatRti" /\ lastOp = "fetchChildren"
    /\ asArray = Array(<<3, 0>>)
    /\ dimensionNames(asArray)
          = << <<"D", "i", "m", "0">>, <<"D", "i", "m", "1">> >>
    /\ dimensionGroupPaths(asArray) = << <<>>, <<>> >>

====
